---- MODULE Spec2Model ----
(***************************************************************************)
(* The connection registry and signal relay of agent-c-signaling-server.   *)
(*                                                                         *)
(* The repository holds two servers: src/server.js (registry `clients`,    *)
(* a temporary id per connection, synchronous handlers) and                *)
(* src/unnamed/part_000 (registry `activeConnections`, a per-connection    *)
(* `connectedAgentId`, async handlers that await the profile store).       *)
(* `program` says which of the two is running; both are modelled over the  *)
(* same connections and the same kinds of state.                           *)
(***************************************************************************)
EXTENDS Integers, Sequences, FiniteSets, TLC

VARIABLES
    program,            \* which server of the repository is running
    now,                \* server.js: Date.now(), in milliseconds, when it was read last
    readyState,         \* ws.readyState of every connection
    clients,            \* server.js: Map id -> ws, in insertion order
    clientId,           \* server.js: const clientId of every connection
    activeConnections,  \* part_000: Map agentId -> ws, in insertion order
    connectedAgentId,   \* part_000: let connectedAgentId of every connection
    awaiting,           \* part_000: how many handlers are suspended at each `await supabase...`
    outbox,             \* what has been delivered to the peer of every connection
    registers,          \* history: the agentIds of the register messages handled per connection
    handled,            \* history: number of 'message' events handled
    last,               \* history: the 'message' event the last step handled, if it handled one,
                        \*          and the one the step before it handled, if it handled one
    forwardedTo,        \* history: the ws whose send() the last step called to forward a signal
    lastRegistrant,     \* history: per agentId, the ws that handled a register for it last
    process             \* whether the node process runs, or what ended it

vars == <<program, now, readyState, clients, clientId, activeConnections,
          connectedAgentId, awaiting, outbox, registers, handled, last,
          forwardedTo, lastRegistrant, process>>

----------------------------------------------------------------------------
(* Bounds *)

NumConns == 2
MaxMessages == 4
MaxClock == 2

Conns == 1..NumConns      \* the ws objects, numbered from 1

(* The two programs *)
ServerJs == "server.js"
Part000 == "part_000"

(* JavaScript values *)
undefined == 0      \* what Map.get yields for a key that is not in the map
null == "null"      \* no id yet
NONE == "NONE"      \* no ws object yet: the connection has not been accepted
OPEN == "OPEN"      \* WebSocket.OPEN
CLOSING == "CLOSING" \* WebSocket.CLOSING: the peer's CLOSE frame came, 'close' not emitted yet
CLOSED == "CLOSED"  \* WebSocket.CLOSED

(* The node process: it runs until an exception nobody catches, or a       *)
(* rejected promise nobody handles, ends it with exit code 1, or until     *)
(* part_000's SIGTERM handler calls process.exit(0).                       *)
RUNNING == "running"
UNCAUGHT_EXCEPTION == "uncaughtException"
UNHANDLED_REJECTION == "unhandledRejection"
SIGTERM == "SIGTERM"

(* What the runtime does with an unhandled rejection: node >= 15 throws it *)
(* as an uncaught exception, older ones (or --unhandled-rejections=warn)   *)
(* only warn.  Neither file says which runtime it runs on.                 *)
UnhandledRejections == {"throw", "warn"}

(* Date.now().toString() *)
DateNowToString(t) == ToString(t)

(* The agent ids clients present: a name, and an id that is also what the *)
(* first timestamp prints as.                                             *)
AgentIds == {"A", "1"}

(* What a signal carries: the origin the sender names and the opaque payload. *)
SignalBodies == {[from |-> "A", signal |-> "offer"], [from |-> "B", signal |-> "answer"]}

----------------------------------------------------------------------------
(* JavaScript Map, kept as the sequence of its entries in insertion order *)

MapHas(m, k) == \E i \in 1..Len(m) : m[i].id = k

MapGet(m, k) ==
    IF MapHas(m, k)
    THEN m[CHOOSE i \in 1..Len(m) : m[i].id = k].socket
    ELSE undefined

MapSet(m, k, v) ==
    IF MapHas(m, k)
    THEN [i \in 1..Len(m) |-> IF m[i].id = k THEN [id |-> k, socket |-> v] ELSE m[i]]
    ELSE Append(m, [id |-> k, socket |-> v])

MapDelete(m, k) == SelectSeq(m, LAMBDA e : e.id # k)

MapKeys(m) == {m[i].id : i \in 1..Len(m)}

(* JavaScript truthiness of a string-or-null value *)
Truthy(v) == v # null /\ v # ""

(* ws.send(JSON.stringify(msg)): the peer gets msg when the socket is open *)
WsSend(ob, ws, msg) ==
    IF readyState[ws] = OPEN THEN [ob EXCEPT ![ws] = Append(@, msg)] ELSE ob

----------------------------------------------------------------------------
(* Inbound frames.  A frame is the JSON text a peer sends; it is modelled  *)
(* by the record JSON.parse yields, or by a record without `type` and with *)
(* `syntaxError` for a text JSON.parse throws on.                          *)

BadFrame == [syntaxError |-> TRUE]

JSONparseThrows(data) == "syntaxError" \in DOMAIN data

PingFrames == {[type |-> "ping"]}
OtherFrames == {[type |-> "hello"]}

ServerRegisterFrames == {[type |-> "register", agentId |-> a] : a \in AgentIds}
ServerSignalFrames ==
    {[type |-> "signal", target |-> t, from |-> b.from, signal |-> b.signal] :
        t \in AgentIds, b \in SignalBodies}
ServerFrames ==
    ServerRegisterFrames \cup ServerSignalFrames \cup PingFrames
        \cup OtherFrames \cup {BadFrame}

PartRegisterFrames == {[type |-> "register", agentId |-> a] : a \in AgentIds}
PartSignalFrames ==
    {[type |-> "signal", targetAgentId |-> t, fromAgentId |-> b.from,
      signal |-> b.signal] : t \in AgentIds, b \in SignalBodies}
PartFrames ==
    PartRegisterFrames \cup PartSignalFrames \cup PingFrames
        \cup OtherFrames \cup {BadFrame}

----------------------------------------------------------------------------
(* The handlers of part_000 that are suspended at their await: which       *)
(* handler, of which connection, for which agent id.  They resume in any   *)
(* order, so only their number is kept.                                    *)
Suspended == [handler : {"register", "close"}, ws : Conns, agentId : AgentIds]

Suspend(aw, k) == [aw EXCEPT ![k] = @ + 1]
Resume(aw, k) == [aw EXCEPT ![k] = @ - 1]

----------------------------------------------------------------------------
(* What `last` keeps of the step before: the 'message' event it handled. *)
Previous(l) ==
    IF l.op = "message" THEN [op |-> "message", ws |-> l.ws, data |-> l.data]
    ELSE [op |-> "event"]

Init ==
    /\ program \in {ServerJs, Part000}
    /\ now = 1
    /\ readyState = [c \in Conns |-> NONE]
    /\ clients = <<>>
    /\ clientId = [c \in Conns |-> null]
    /\ activeConnections = <<>>
    /\ connectedAgentId = [c \in Conns |-> null]
    /\ awaiting = [k \in Suspended |-> 0]
    /\ outbox = [c \in Conns |-> <<>>]
    /\ registers = [c \in Conns |-> <<>>]
    /\ handled = 0
    /\ last = [op |-> "init"]
    /\ forwardedTo = undefined
    /\ lastRegistrant = [a \in AgentIds |-> undefined]
    /\ process = RUNNING

(* Connections are accepted in the order of their numbers. *)
NextToAccept(ws) == \A d \in Conns : d < ws => readyState[d] # NONE

----------------------------------------------------------------------------
(* The CLOSE frame of the peer arrives: ws stops reading the socket and    *)
(* puts it in readyState CLOSING.  The 'close' event, and with it the      *)
(* close handler, comes later, when the TCP connection has ended; other    *)
(* handlers run in between.  No handler of either program runs here.       *)
WsClosing(ws) ==
    /\ process = RUNNING
    /\ readyState[ws] = OPEN
    /\ readyState' = [readyState EXCEPT ![ws] = CLOSING]
    /\ last' = [op |-> "event"]
    /\ forwardedTo' = undefined
    /\ UNCHANGED <<program, now, clients, clientId, activeConnections,
                   connectedAgentId, awaiting, outbox, registers, handled,
                   lastRegistrant>>
    /\ UNCHANGED process

(* The process exits with code 1: what it held in memory (the registry,   *)
(* the ids of the connections, the suspended handlers) is gone, every      *)
(* connection is cut, and no handler runs any more, the close handlers     *)
(* included.  What the peers were sent before stays sent.                  *)
ProcessExit(how) ==
    /\ process' = how
    /\ readyState' = [c \in Conns |-> IF readyState[c] = NONE THEN NONE ELSE CLOSED]
    /\ now' = 1
    /\ clients' = <<>>
    /\ clientId' = [c \in Conns |-> null]
    /\ activeConnections' = <<>>
    /\ connectedAgentId' = [c \in Conns |-> null]
    /\ awaiting' = [k \in Suspended |-> 0]
    /\ last' = [op |-> "event"]
    /\ forwardedTo' = undefined
    /\ UNCHANGED <<program, outbox, registers, handled, lastRegistrant>>

(* A frame that breaks the WebSocket protocol (a text payload that is not  *)
(* valid UTF-8, a frame without the MASK bit, ...) arrives on one of the   *)
(* open connections: ws refuses it and emits 'error' on that socket, and   *)
(* no 'message' event comes of it.  Neither program registers              *)
(* ws.on('error'), so the emit throws, nothing catches it, and the process *)
(* exits; which connection the frame came on makes no difference.  It is   *)
(* one of the at most MaxMessages inbound frames.                          *)
WsReceiverError ==
    /\ process = RUNNING
    /\ handled < MaxMessages
    /\ \E ws \in Conns : readyState[ws] = OPEN
    /\ ProcessExit(UNCAUGHT_EXCEPTION)

----------------------------------------------------------------------------
(* server.js *)

(* The clock is read when a connection is accepted: t is Date.now() then, *)
(* not before the time it was read last.                                  *)
ServerConnection(ws, t) ==
    /\ process = RUNNING
    /\ program = ServerJs
    /\ readyState[ws] = NONE
    /\ NextToAccept(ws)
    /\ t \in now..MaxClock
    /\ now' = t
    /\ readyState' = [readyState EXCEPT ![ws] = OPEN]
    /\ clientId' = [clientId EXCEPT ![ws] = DateNowToString(t)]
    /\ clients' = MapSet(clients, clientId'[ws], ws)
    \* ws.send of the greeting: the socket is open from here on
    /\ outbox' = [outbox EXCEPT ![ws] =
            Append(@, [type |-> "connected", clientId |-> clientId'[ws],
                       message |-> "Connected to signaling server"])]
    /\ last' = [op |-> "event"]
    /\ forwardedTo' = undefined
    /\ UNCHANGED lastRegistrant
    /\ UNCHANGED <<program, activeConnections, connectedAgentId, awaiting,
                   registers, handled>>
    /\ UNCHANGED process

ServerRegister(ws, message) ==
    /\ clients' = MapSet(MapDelete(clients, clientId[ws]), message.agentId, ws)
    /\ outbox' = WsSend(outbox, ws,
            [type |-> "registered", agentId |-> message.agentId,
             message |-> "Agent registered successfully"])
    /\ registers' = [registers EXCEPT ![ws] = Append(@, message.agentId)]
    /\ lastRegistrant' = [lastRegistrant EXCEPT ![message.agentId] = ws]
    /\ forwardedTo' = undefined

(* Mutant: the forwarded signal is also echoed to its sender. *)
ServerSignalEcho(ws, message) ==
    /\ LET targetWs == MapGet(clients, message.target)
           forwarded == [type |-> "signal", from |-> message.from,
                         signal |-> message.signal] IN
         IF targetWs # undefined /\ readyState[targetWs] = OPEN
         THEN /\ outbox' = WsSend(WsSend(outbox, targetWs, forwarded), ws, forwarded)
              /\ forwardedTo' = targetWs
         ELSE /\ outbox' = WsSend(outbox, ws,
                    [type |-> "error", message |-> "Target agent not found or offline"])
              /\ forwardedTo' = undefined
    /\ UNCHANGED <<clients, registers, lastRegistrant>>

(* Mutant: the forwarded signal overtakes what was sent to the target before. *)
ServerSignalOvertakes(ws, message) ==
    /\ LET targetWs == MapGet(clients, message.target) IN
         IF targetWs # undefined /\ readyState[targetWs] = OPEN
         THEN /\ outbox' = [outbox EXCEPT ![targetWs] =
                    <<[type |-> "signal", from |-> message.from,
                       signal |-> message.signal]>> \o @]
              /\ forwardedTo' = targetWs
         ELSE /\ outbox' = WsSend(outbox, ws,
                    [type |-> "error", message |-> "Target agent not found or offline"])
              /\ forwardedTo' = undefined
    /\ UNCHANGED <<clients, registers, lastRegistrant>>

(* case 'signal' *)
ServerSignal(ws, message) ==
    /\ LET targetWs == MapGet(clients, message.target) IN
         IF targetWs # undefined /\ readyState[targetWs] = OPEN
         THEN /\ outbox' = WsSend(outbox, targetWs,
                    [type |-> "signal", from |-> message.from, signal |-> message.signal])
              /\ forwardedTo' = targetWs
         ELSE /\ outbox' = WsSend(outbox, ws,
                    [type |-> "error", message |-> "Target agent not found or offline"])
              /\ forwardedTo' = undefined
    /\ UNCHANGED <<clients, registers, lastRegistrant>>

(* Mutant: the keep-alive also puts the connection back under its temporary id. *)
ServerPingRefresh(ws) ==
    /\ outbox' = WsSend(outbox, ws, [type |-> "pong"])
    /\ clients' = MapSet(clients, clientId[ws], ws)
    /\ forwardedTo' = undefined
    /\ UNCHANGED <<registers, lastRegistrant>>

ServerPing(ws) ==
    /\ outbox' = WsSend(outbox, ws, [type |-> "pong"])
    /\ forwardedTo' = undefined
    /\ UNCHANGED <<clients, registers, lastRegistrant>>

(* no case of the switch matches, or JSON.parse threw and the catch logged it *)
ServerIgnore(ws) ==
    /\ forwardedTo' = undefined
    /\ UNCHANGED <<clients, outbox, registers, lastRegistrant>>

ServerMessage(ws, data) ==
    /\ process = RUNNING
    /\ program = ServerJs
    /\ readyState[ws] = OPEN
    /\ handled < MaxMessages
    /\ data \in ServerFrames
    /\ handled' = handled + 1
    /\ last' = [op |-> "message", ws |-> ws, data |-> data, prev |-> Previous(last)]
    /\ IF JSONparseThrows(data) THEN ServerIgnore(ws)
       ELSE CASE data.type = "register" -> ServerRegister(ws, data)
              [] data.type = "signal" -> ServerSignal(ws, data)
              [] data.type = "ping" -> ServerPing(ws)
              [] OTHER -> ServerIgnore(ws)
    /\ UNCHANGED <<program, now, readyState, clientId, activeConnections,
                   connectedAgentId, awaiting>>
    /\ UNCHANGED process

(* for (let [id, socket] of clients.entries()) if (socket === ws) { delete; break } *)
ServerScanDelete(m, ws) ==
    IF \E i \in 1..Len(m) : m[i].socket = ws
    THEN LET first == CHOOSE i \in 1..Len(m) :
                        /\ m[i].socket = ws
                        /\ \A j \in 1..(i - 1) : m[j].socket # ws
         IN MapDelete(m, m[first].id)
    ELSE m

(* ws.on('close'): emitted once, for a socket that was open or closing *)
ServerClose(ws) ==
    /\ process = RUNNING
    /\ program = ServerJs
    /\ readyState[ws] \in {OPEN, CLOSING}
    /\ readyState' = [readyState EXCEPT ![ws] = CLOSED]
    /\ clients' = ServerScanDelete(clients, ws)
    /\ last' = [op |-> "event"]
    /\ forwardedTo' = undefined
    /\ UNCHANGED lastRegistrant
    /\ UNCHANGED <<program, now, clientId, activeConnections, connectedAgentId,
                   awaiting, outbox, registers, handled>>
    /\ UNCHANGED process

----------------------------------------------------------------------------
(* src/unnamed/part_000 *)

PartConnection(ws) ==
    /\ process = RUNNING
    /\ program = Part000
    /\ readyState[ws] = NONE
    /\ NextToAccept(ws)
    /\ readyState' = [readyState EXCEPT ![ws] = OPEN]
    /\ connectedAgentId' = [connectedAgentId EXCEPT ![ws] = null]
    /\ last' = [op |-> "event"]
    /\ forwardedTo' = undefined
    /\ UNCHANGED lastRegistrant
    /\ UNCHANGED <<program, now, clients, clientId, activeConnections, awaiting,
                   outbox, registers, handled>>
    /\ UNCHANGED process

(* Mutant: an id that is bound already keeps its connection. *)
PartRegisterFirstWins(ws, data) ==
    /\ connectedAgentId' = [connectedAgentId EXCEPT ![ws] = data.agentId]
    /\ activeConnections' =
            IF MapHas(activeConnections, data.agentId)
            THEN activeConnections
            ELSE MapSet(activeConnections, data.agentId, ws)
    /\ awaiting' = Suspend(awaiting,
            [handler |-> "register", ws |-> ws, agentId |-> data.agentId])
    /\ registers' = [registers EXCEPT ![ws] = Append(@, data.agentId)]
    /\ lastRegistrant' = [lastRegistrant EXCEPT ![data.agentId] = ws]
    /\ forwardedTo' = undefined
    /\ UNCHANGED outbox

(* Mutant: the entry under the id the connection held is removed after the *)
(* new binding is made, also when the two ids are the same.                *)
PartRegisterUnbindAfterBind(ws, data) ==
    /\ connectedAgentId' = [connectedAgentId EXCEPT ![ws] = data.agentId]
    /\ activeConnections' =
            MapDelete(MapSet(activeConnections, data.agentId, ws),
                      connectedAgentId[ws])
    /\ awaiting' = Suspend(awaiting,
            [handler |-> "register", ws |-> ws, agentId |-> data.agentId])
    /\ registers' = [registers EXCEPT ![ws] = Append(@, data.agentId)]
    /\ lastRegistrant' = [lastRegistrant EXCEPT ![data.agentId] = ws]
    /\ forwardedTo' = undefined
    /\ UNCHANGED outbox

(* case 'register', up to the await *)
PartRegister(ws, data) ==
    /\ connectedAgentId' = [connectedAgentId EXCEPT ![ws] = data.agentId]
    /\ activeConnections' = MapSet(activeConnections, data.agentId, ws)
    /\ awaiting' = Suspend(awaiting,
            [handler |-> "register", ws |-> ws, agentId |-> data.agentId])
    /\ registers' = [registers EXCEPT ![ws] = Append(@, data.agentId)]
    /\ lastRegistrant' = [lastRegistrant EXCEPT ![data.agentId] = ws]
    /\ forwardedTo' = undefined
    /\ UNCHANGED outbox

(* Mutant: the signal is forwarded to whatever the id resolves to, without *)
(* looking at the readyState of that socket.                              *)
PartSignalAnyState(ws, data) ==
    /\ LET targetWs == MapGet(activeConnections, data.targetAgentId) IN
         IF targetWs # undefined
         THEN /\ outbox' = WsSend(outbox, targetWs,
                    [type |-> "signal", from |-> data.fromAgentId,
                     signal |-> data.signal])
              /\ forwardedTo' = targetWs
         ELSE /\ UNCHANGED outbox
              /\ forwardedTo' = undefined
    /\ UNCHANGED <<connectedAgentId, activeConnections, awaiting, registers,
                   lastRegistrant>>

(* case 'signal' *)
PartSignal(ws, data) ==
    /\ LET targetWs == MapGet(activeConnections, data.targetAgentId) IN
         IF targetWs # undefined /\ readyState[targetWs] = OPEN
         THEN /\ outbox' = WsSend(outbox, targetWs,
                    [type |-> "signal", from |-> data.fromAgentId,
                     signal |-> data.signal])
              /\ forwardedTo' = targetWs
         ELSE /\ UNCHANGED outbox
              /\ forwardedTo' = undefined
    /\ UNCHANGED <<connectedAgentId, activeConnections, awaiting, registers,
                   lastRegistrant>>

PartPing(ws) ==
    /\ outbox' = WsSend(outbox, ws, [type |-> "pong"])
    /\ forwardedTo' = undefined
    /\ UNCHANGED <<connectedAgentId, activeConnections, awaiting, registers,
                   lastRegistrant>>

PartIgnore(ws) ==
    /\ forwardedTo' = undefined
    /\ UNCHANGED <<connectedAgentId, activeConnections, awaiting, outbox, registers,
                   lastRegistrant>>

PartMessage(ws, message) ==
    /\ process = RUNNING
    /\ program = Part000
    /\ readyState[ws] = OPEN
    /\ handled < MaxMessages
    /\ message \in PartFrames
    /\ handled' = handled + 1
    /\ last' = [op |-> "message", ws |-> ws, data |-> message, prev |-> Previous(last)]
    /\ IF JSONparseThrows(message) THEN PartIgnore(ws)
       ELSE CASE message.type = "register" -> PartRegister(ws, message)
              [] message.type = "signal" -> PartSignal(ws, message)
              [] message.type = "ping" -> PartPing(ws)
              [] OTHER -> PartIgnore(ws)
    /\ UNCHANGED <<program, now, readyState, clients, clientId>>
    /\ UNCHANGED process

(* How the awaited update of the profile store settles: it resolves, with  *)
(* or without an error in its result, which the handlers do not read, or   *)
(* it rejects, and the await throws.  It may also never settle: no step.   *)
StoreResults == {"ok", "error", "rejected"}

(* case 'register', after the await: the reply, or the catch that only logs *)
PartRegisterResume(ws, agentId, result) ==
    /\ process = RUNNING
    /\ program = Part000
    /\ awaiting[[handler |-> "register", ws |-> ws, agentId |-> agentId]] > 0
    /\ result \in StoreResults
    /\ outbox' = IF result = "rejected" THEN outbox
                 ELSE WsSend(outbox, ws,
                        [type |-> "registered", status |-> "online",
                         agentId |-> agentId])
    /\ awaiting' = Resume(awaiting,
            [handler |-> "register", ws |-> ws, agentId |-> agentId])
    /\ last' = [op |-> "event"]
    /\ forwardedTo' = undefined
    /\ UNCHANGED lastRegistrant
    /\ UNCHANGED <<program, now, readyState, clients, clientId, activeConnections,
                   connectedAgentId, registers, handled>>
    /\ UNCHANGED process

(* ws.on('close'), up to the await *)
PartClose(ws) ==
    /\ process = RUNNING
    /\ program = Part000
    /\ readyState[ws] \in {OPEN, CLOSING}
    /\ readyState' = [readyState EXCEPT ![ws] = CLOSED]
    /\ awaiting' = IF Truthy(connectedAgentId[ws])
                   THEN Suspend(awaiting, [handler |-> "close", ws |-> ws,
                                           agentId |-> connectedAgentId[ws]])
                   ELSE awaiting
    /\ last' = [op |-> "event"]
    /\ forwardedTo' = undefined
    /\ UNCHANGED lastRegistrant
    /\ UNCHANGED <<program, now, clients, clientId, activeConnections,
                   connectedAgentId, outbox, registers, handled>>
    /\ UNCHANGED process

(* ws.on('close'), after the await: the delete, or the end of the handler *)
(* when the await threw, which may end the process                        *)
PartCloseResume(ws, result) ==
    /\ process = RUNNING
    /\ program = Part000
    /\ Truthy(connectedAgentId[ws])
    /\ awaiting[[handler |-> "close", ws |-> ws,
                 agentId |-> connectedAgentId[ws]]] > 0
    /\ result \in StoreResults
    \* the async listener has no try/catch: its rejection is unhandled
    /\ \E mode \in (IF result = "rejected" THEN UnhandledRejections ELSE {"none"}) :
          IF mode = "throw"
          THEN ProcessExit(UNHANDLED_REJECTION)
          ELSE /\ activeConnections' =
                      IF result = "rejected" THEN activeConnections
                      ELSE MapDelete(activeConnections, connectedAgentId[ws])
               /\ awaiting' = Resume(awaiting, [handler |-> "close", ws |-> ws,
                                                agentId |-> connectedAgentId[ws]])
               /\ last' = [op |-> "event"]
               /\ forwardedTo' = undefined
               /\ UNCHANGED <<program, now, readyState, clients, clientId,
                              connectedAgentId, outbox, registers, handled,
                              lastRegistrant, process>>

----------------------------------------------------------------------------
(* process.on('SIGTERM'): wss.close(), server.close(), process.exit(0).    *)
(* process.exit ends the process before any 'close' event of a connection  *)
(* is emitted, so no close handler runs and nothing is sent.               *)
PartSigterm ==
    /\ process = RUNNING
    /\ program = Part000
    /\ ProcessExit(SIGTERM)

Next ==
    \/ \E ws \in Conns : WsClosing(ws)
    \/ WsReceiverError
    \/ \E ws \in Conns, t \in 1..MaxClock : ServerConnection(ws, t)
    \/ \E ws \in Conns, data \in ServerFrames : ServerMessage(ws, data)
    \/ \E ws \in Conns : ServerClose(ws)
    \/ \E ws \in Conns : PartConnection(ws)
    \/ \E ws \in Conns, message \in PartFrames : PartMessage(ws, message)
    \/ \E ws \in Conns : PartClose(ws)
    \/ \E ws \in Conns, agentId \in AgentIds, result \in StoreResults :
            PartRegisterResume(ws, agentId, result)
    \/ \E ws \in Conns, result \in StoreResults : PartCloseResume(ws, result)
    \/ PartSigterm

Spec == Init /\ [][Next]_vars

----------------------------------------------------------------------------
(* Vocabulary of the properties *)

(* The registry of the running program, and what it resolves an id to. *)
Registry == IF program = ServerJs THEN clients ELSE activeConnections
Lookup(k) == MapGet(Registry, k)
BoundIds(m, ws) == {m[i].id : i \in {j \in 1..Len(m) : m[j].socket = ws}}
EntriesFor(m, k) == {i \in 1..Len(m) : m[i].id = k}

(* The fields of a signal frame, as each program names them. *)
TargetOf(data) == IF program = ServerJs THEN data.target ELSE data.targetAgentId
FromOf(data) == IF program = ServerJs THEN data.from ELSE data.fromAgentId

IsFrame(data, type) == ~JSONparseThrows(data) /\ data.type = type

(* The step handles the 'message' event of `data` on ws. *)
MessageStep(ws, data) ==
    /\ handled' = handled + 1
    /\ last'.ws = ws
    /\ last'.data = data

(* The step handles a 'message' event: last' says of which frame, on which *)
(* connection.                                                             *)
HandlesMessage == handled' = handled + 1

(* The step handles the 'close' event of ws (up to its await, if any). *)
CloseStep(ws) ==
    /\ process' = RUNNING
    /\ readyState[ws] \in {OPEN, CLOSING}
    /\ readyState'[ws] = CLOSED

(* The close handler of ws is suspended at its await. *)
CloseAwaiting(ws) ==
    \E a \in AgentIds : awaiting[[handler |-> "close", ws |-> ws, agentId |-> a]] > 0

(* The step is the one that ends the close handling of ws. *)
CloseCompletes(ws) ==
    \/ CloseStep(ws) /\ ~CloseAwaiting(ws)'
    \/ process' = RUNNING /\ CloseAwaiting(ws) /\ ~CloseAwaiting(ws)'

(* The close handling of ws has run to its end. *)
CloseCompleted(ws) ==
    process = RUNNING /\ readyState[ws] = CLOSED /\ ~CloseAwaiting(ws)

AllFrames == ServerFrames \cup PartFrames
RegisterFrames == {f \in AllFrames : IsFrame(f, "register")}
SignalFrames == {f \in AllFrames : IsFrame(f, "signal")}

----------------------------------------------------------------------------
(* C1: the close of a connection removes no entry that is bound to another *)
(* connection: when the close handling of X ends, every id that resolved   *)
(* to a connection Y other than X still resolves to Y (X registers A, Y    *)
(* registers A, X closes: A still resolves to Y).                          *)
C1_CloseKeepsNewerBinding ==
    [][\A X \in Conns : CloseCompletes(X) =>
          \A k \in MapKeys(Registry) :
              Lookup(k) # X => MapGet(Registry', k) = Lookup(k)]_vars

(* C2: once the close handling of a connection has ended, no entry of the  *)
(* registry is bound to it.                                                *)
C2_NoEntryForClosed ==
    \A ws \in Conns : CloseCompleted(ws) => BoundIds(Registry, ws) = {}

(* C3: a signal whose target is not bound, or is bound to a connection     *)
(* that is not open, yields exactly one error reply to the sender and      *)
(* nothing to any other connection.                                        *)
C3_UnroutableYieldsOneError ==
    [][\A ws \in Conns, data \in SignalFrames :
          ( /\ MessageStep(ws, data)
            /\ \/ Lookup(TargetOf(data)) = undefined
               \/ readyState[Lookup(TargetOf(data))] # OPEN )
          => /\ Len(outbox'[ws]) = Len(outbox[ws]) + 1
             /\ SubSeq(outbox'[ws], 1, Len(outbox[ws])) = outbox[ws]
             /\ outbox'[ws][Len(outbox'[ws])].type = "error"
             /\ \A d \in Conns \ {ws} : outbox'[d] = outbox[d]]_vars

(* The message a signal frame is forwarded as. *)
Forwarded(data) == [type |-> "signal", from |-> FromOf(data), signal |-> data.signal]

(* C4: a signal whose target is bound to an open connection Z puts exactly *)
(* one signal message, with the payload and the `from` of the frame, on Z  *)
(* and nothing on any other connection; so n such frames make n deliveries.*)
C4_SignalDeliveredOnceToTarget ==
    [][HandlesMessage => \A ws \in Conns, data \in SignalFrames :
          ( /\ MessageStep(ws, data)
            /\ Lookup(TargetOf(data)) # undefined
            /\ readyState[Lookup(TargetOf(data))] = OPEN )
          => LET Z == Lookup(TargetOf(data)) IN
               /\ outbox'[Z] = Append(outbox[Z], Forwarded(data))
               /\ \A d \in Conns \ {Z} : outbox'[d] = outbox[d]]_vars

(* Two identical signals of one connection have both been delivered to the *)
(* other, which is bound under their target.                               *)
C4_Witness ==
    /\ last.op = "message"
    /\ IsFrame(last.data, "signal")
    /\ \E Z \in Conns \ {last.ws} :
          /\ Lookup(TargetOf(last.data)) = Z
          /\ Len(outbox[Z]) >= 2
          /\ outbox[Z][Len(outbox[Z])] = Forwarded(last.data)
          /\ outbox[Z][Len(outbox[Z]) - 1] = Forwarded(last.data)

(* The messages of type "signal" a step puts on connection d. *)
GainsSignal(d) ==
    \E i \in (Len(outbox[d]) + 1)..Len(outbox'[d]) : outbox'[d][i].type = "signal"

(* C5: register(A) on Y while A is bound to another open connection X      *)
(* supersedes: afterwards A has one entry, bound to Y, X is still open and *)
(* no longer bound under A; and a signal is forwarded only to the          *)
(* connection its target resolves to, so signals to A reach Y, never X.    *)
C5_RegisterSupersedes ==
    /\ [][HandlesMessage => \A Y \in Conns, data \in RegisterFrames :
            ( /\ MessageStep(Y, data)
              /\ Lookup(data.agentId) \notin {undefined, Y}
              /\ readyState[Lookup(data.agentId)] = OPEN )
            => LET X == Lookup(data.agentId) IN
                 /\ MapGet(Registry', data.agentId) = Y
                 /\ Cardinality(EntriesFor(Registry', data.agentId)) = 1
                 /\ data.agentId \notin BoundIds(Registry', X)
                 /\ readyState'[X] = OPEN]_vars
    /\ [][HandlesMessage => \A ws \in Conns, data \in SignalFrames :
            MessageStep(ws, data) =>
                \A d \in Conns : GainsSignal(d) => d = Lookup(TargetOf(data))]_vars

(* Y has just registered an id that X, still open, registered before it.  *)
C5_Witness ==
    /\ last.op = "message"
    /\ IsFrame(last.data, "register")
    /\ Lookup(last.data.agentId) = last.ws
    /\ \E X \in Conns \ {last.ws} :
          /\ readyState[X] = OPEN
          /\ registers[X] # <<>>
          /\ registers[X][Len(registers[X])] = last.data.agentId

(* C6: register(B) on a connection still bound under the id A it           *)
(* registered last, B # A, removes its entry under A: the connection is    *)
(* then bound under at most one id.                                        *)
C6_ReRegisterUnbindsOldId ==
    [][\A ws \in Conns, data \in RegisterFrames :
          ( /\ MessageStep(ws, data)
            /\ registers[ws] # <<>>
            /\ registers[ws][Len(registers[ws])] # data.agentId
            /\ Lookup(registers[ws][Len(registers[ws])]) = ws )
          => /\ MapGet(Registry', registers[ws][Len(registers[ws])]) # ws
             /\ Cardinality(BoundIds(Registry', ws)) <= 1]_vars

(* Replies, register messages and suspended register handlers, per         *)
(* connection and agent id.                                                *)
RegisteredReplies(ws, a) ==
    Cardinality({i \in 1..Len(outbox[ws]) :
        outbox[ws][i].type = "registered" /\ outbox[ws][i].agentId = a})
RegistersHandled(ws, a) ==
    Cardinality({i \in 1..Len(registers[ws]) : registers[ws][i] = a})
RegistersAwaiting(ws, a) ==
    awaiting[[handler |-> "register", ws |-> ws, agentId |-> a]]

GainsError(d) ==
    \E i \in (Len(outbox[d]) + 1)..Len(outbox'[d]) : outbox'[d][i].type = "error"

(* C7: on a connection that stays open every register(A) is answered by    *)
(* exactly one `registered` reply carrying A, whatever the profile store   *)
(* does: while the connection is open, the replies it has got and the      *)
(* handlers still at their await add up to the registers handled (so a     *)
(* register whose handler has ended has been answered, once), and a        *)
(* register is never answered with an error.                               *)
C7_RegisterAnsweredOnce ==
    /\ [](\A ws \in Conns, a \in AgentIds :
            readyState[ws] = OPEN =>
                RegisteredReplies(ws, a) + RegistersAwaiting(ws, a)
                    = RegistersHandled(ws, a))
    /\ [][\A ws \in Conns, data \in RegisterFrames :
            MessageStep(ws, data) => \A d \in Conns : ~GainsError(d)]_vars

(* C8: a register(A) that directly follows a register(A) of the same       *)
(* connection leaves the registry as it was, with one entry for A, bound   *)
(* to that connection.                                                     *)
C8_ReRegisterSameIdIdempotent ==
    [][HandlesMessage => \A ws \in Conns, data \in RegisterFrames :
          ( /\ MessageStep(ws, data)
            /\ Previous(last) = [op |-> "message", ws |-> ws, data |-> data] )
          => /\ Registry' = Registry
             /\ Cardinality(EntriesFor(Registry', data.agentId)) = 1
             /\ MapGet(Registry', data.agentId) = ws]_vars

(* A connection has handled the same register twice in a row, while the    *)
(* registry holds an entry of another connection as well.                  *)
C8_Witness ==
    /\ last.op = "message"
    /\ IsFrame(last.data, "register")
    /\ registers[last.ws] = <<last.data.agentId, last.data.agentId>>
    /\ \E d \in Conns \ {last.ws} : BoundIds(Registry, d) # {}

(* C9: a ping puts exactly one pong on its connection and nothing on any   *)
(* other, and leaves the registry and every session id as they were.       *)
C9_PingYieldsOnePong ==
    [][HandlesMessage => \A ws \in Conns, data \in PingFrames :
          MessageStep(ws, data)
          => /\ outbox'[ws] = Append(outbox[ws], [type |-> "pong"])
             /\ \A d \in Conns \ {ws} : outbox'[d] = outbox[d]
             /\ Registry' = Registry
             /\ clientId' = clientId
             /\ connectedAgentId' = connectedAgentId]_vars

(* A registered connection has just been answered a ping. *)
C9_Witness ==
    /\ last.op = "message"
    /\ IsFrame(last.data, "ping")
    /\ registers[last.ws] # <<>>
    /\ BoundIds(Registry, last.ws) # {}
    /\ outbox[last.ws][Len(outbox[last.ws])] = [type |-> "pong"]

(* C10: the close of a connection that handled no register leaves the     *)
(* registry exactly as it was (no entry added, removed or rebound) and     *)
(* sends nothing.                                                          *)
C10_CloseOfUnregisteredLeavesRegistry ==
    [][\A ws \in Conns :
          (registers[ws] = <<>> /\ CloseCompletes(ws))
          => Registry' = Registry /\ outbox' = outbox]_vars

(* C11: an inbound frame that cannot be parsed (one that breaks the        *)
(* WebSocket protocol, or a text that is not JSON), or whose type is none  *)
(* of register, signal and ping, is ignored: the step that takes it leaves *)
(* the server running and every connection in the state it was in (the     *)
(* receiving one Open, so that its later messages are handled), the        *)
(* registry and the session ids as they were, suspends no handler, and     *)
(* delivers nothing to any connection.                                     *)
IgnoredFrames == OtherFrames \cup {BadFrame}

(* The step takes a frame that ws refuses. *)
ReceiverErrorStep == process = RUNNING /\ process' = UNCAUGHT_EXCEPTION

C11_UnknownFrameIgnored ==
    [][( \/ \E ws \in Conns, data \in IgnoredFrames : MessageStep(ws, data)
         \/ ReceiverErrorStep )
       => /\ process' = RUNNING
          /\ readyState' = readyState
          /\ Registry' = Registry
          /\ clientId' = clientId
          /\ connectedAgentId' = connectedAgentId
          /\ awaiting' = awaiting
          /\ outbox' = outbox]_vars

(* C12: the router never forwards a signal to a connection that is Closed: *)
(* whenever the handling of a signal calls send() on a target socket, that *)
(* socket is Open at that moment, and it is the one the target id resolves *)
(* to; this also when the registry holds an entry for a connection that is *)
(* Closed and whose close handling has not ended.                          *)
C12_ForwardOnlyToOpen ==
    [][HandlesMessage => \A ws \in Conns, data \in SignalFrames :
          MessageStep(ws, data) /\ forwardedTo' # undefined
          => /\ forwardedTo' = Lookup(TargetOf(data))
             /\ readyState[forwardedTo'] = OPEN
             /\ readyState'[forwardedTo'] = OPEN]_vars

(* A signal has just been handled whose target id resolves to a connection *)
(* that is Closed with its close handler still at its await: no send() was *)
(* called for it.                                                          *)
C12_Witness ==
    /\ last.op = "message"
    /\ IsFrame(last.data, "signal")
    /\ Lookup(TargetOf(last.data)) # undefined
    /\ readyState[Lookup(TargetOf(last.data))] = CLOSED
    /\ CloseAwaiting(Lookup(TargetOf(last.data)))
    /\ forwardedTo = undefined

(* C13: the signals a connection receives are the signals forwarded to it, *)
(* in the order in which their signal messages were handled, none lost and *)
(* none twice: handling a signal that is forwarded to d puts that signal   *)
(* after everything d was sent before, and no other step (another message  *)
(* on any connection, a register or a close reaching or leaving its await) *)
(* adds, removes or moves a signal in what d has received.                 *)
SignalsOf(ob) == SelectSeq(ob, LAMBDA m : m.type = "signal")

C13_SignalsInProcessingOrder ==
    [][\A d \in Conns :
          IF HandlesMessage /\ forwardedTo' = d
          THEN /\ outbox'[d] = Append(outbox[d], Forwarded(last'.data))
               /\ SignalsOf(outbox'[d]) =
                      Append(SignalsOf(outbox[d]), Forwarded(last'.data))
          ELSE /\ SignalsOf(outbox'[d]) = SignalsOf(outbox[d])
               /\ \A i \in 1..Len(outbox[d]) :
                      i <= Len(outbox'[d]) /\ outbox'[d][i] = outbox[d][i]]_vars

(* part_000: connection s, with its register at the await of the profile  *)
(* store, has sent two signals with different payloads one directly after  *)
(* the other to the id another connection d, Open, is bound under: d has   *)
(* received exactly the two, in the order in which they were sent.         *)
C13_Witness ==
    /\ program = Part000
    /\ last.op = "message"
    /\ last.prev.op = "message"
    /\ IsFrame(last.data, "signal")
    /\ IsFrame(last.prev.data, "signal")
    /\ last.prev.ws = last.ws
    /\ last.prev.data.signal # last.data.signal
    /\ TargetOf(last.prev.data) = TargetOf(last.data)
    /\ \E a \in AgentIds :
          awaiting[[handler |-> "register", ws |-> last.ws, agentId |-> a]] > 0
    /\ \E d \in Conns \ {last.ws} :
          /\ Lookup(TargetOf(last.data)) = d
          /\ readyState[d] = OPEN
          /\ forwardedTo = d
          /\ SignalsOf(outbox[d]) = <<Forwarded(last.prev.data), Forwarded(last.data)>>

(* C14: accepting a connection c, or handling register(B) on c, neither    *)
(* removes nor rebinds an entry of the registry that is bound to another   *)
(* connection d under an id k other than B: k resolves to d afterwards     *)
(* too, whatever temporary id c was given when it was accepted.            *)
ConnectionStep(c) == readyState[c] = NONE /\ readyState'[c] = OPEN

AcceptKeepsOthers ==
    \A c \in Conns :
        ConnectionStep(c)
        => \A k \in MapKeys(Registry) :
              Lookup(k) # c => MapGet(Registry', k) = Lookup(k)

RegisterKeepsOthers ==
    \A c \in Conns, data \in RegisterFrames :
        MessageStep(c, data)
        => \A k \in MapKeys(Registry) \ {data.agentId} :
              Lookup(k) # c => MapGet(Registry', k) = Lookup(k)

C14_OthersEntriesUntouched ==
    [][AcceptKeepsOthers /\ RegisterKeepsOthers]_vars

(* C15: a connected agent stays routable under its current id: in every    *)
(* reachable state, when connection c is Open, the register c handled last *)
(* was for id A, and no other connection has handled a register for A      *)
(* since, A resolves to c.                                                 *)
CurrentId(c) == registers[c][Len(registers[c])]

C15_CurrentRegistrantRoutable ==
    \A c \in Conns, A \in AgentIds :
        ( /\ readyState[c] = OPEN
          /\ registers[c] # <<>>
          /\ CurrentId(c) = A
          /\ lastRegistrant[A] = c )
        => Lookup(A) = c

====
